---- MODULE Spec2Model ----
(***************************************************************************)
(* Model of the TOTAL indicator pipeline of madrichardson/turtlewatch:     *)
(*   scripts/update_total_indicator_2025.py  (the indicator-update stage)  *)
(*   scripts/control_total_data_2025.py      (the staleness orchestrator)  *)
(*   scripts/make_monthly_maps_2025.py       (the monthly-maps stage)      *)
(*                                                                         *)
(* Encodings.                                                              *)
(*  - A month key ("dateyrmo", the string YYYY-MM) is the integer YYYYMM:  *)
(*    the lexicographic order of zero-padded YYYY-MM strings, which the    *)
(*    code uses in sort_values/max/<=, is the order of these integers.     *)
(*    Blank (0) is a blank or unparseable key (NaT after to_datetime).     *)
(*  - A datetime is [ym, day]; only month and day-of-month matter to the   *)
(*    comparisons the code makes.                                          *)
(*  - anom and indicator are held in hundredths (the code rounds both to   *)
(*    two decimals): 0.77 is 77.  The unrounded regional mean read from    *)
(*    the remote grid is held in thousandths.  Rounding is done on the     *)
(*    exact quotient, ties to even, as Python's round() does on decimals.  *)
(***************************************************************************)
EXTENDS Integers, Sequences, FiniteSets, TLC

VARIABLES
    csv,        \* data/resources/loggerhead_indx.csv: sequence of rows
    web,        \* data/json/web_data.json: <<>> (absent) or <<summary>>
    maps,       \* data/images/sst_2*.png: month stamps, oldest mtime first
    erddap,     \* remote dataset: month key -> the region's cells (1/1000)
    unreadable, \* remote months whose grid read raises ValueError/IndexError
    fcMade,     \* history: month keys whose csv row the forecast code wrote
    mapsDone,   \* history: -d argument of the last completed maps run (0: none)
    last,       \* history: what the most recent step did and saw
    call,       \* one call of a helper followed alone: arguments, progress, result
    proc,       \* instances of the update stage followed statement by statement
    images,     \* data/images/indicator_*.png: the plots of the indicator
    elnino      \* data/json/elnino_last.json and the dated *_elnino.json files

vars == <<csv, web, maps, erddap, unreadable, fcMade, mapsDone, last, call, proc,
          images, elnino>>

\* the files, the remote dataset and the history of whole runs
pipeline == <<csv, web, maps, erddap, unreadable, fcMade, mapsDone, last,
              images, elnino>>

----------------------------------------------------------------------------
(* Bounds of the model *)

\* how many months after the seed's observed months the remote can publish
NumNew == 2

\* day of month on which a run happens (dateutil fills it into parse("YYYY-MM"))
RunDays == {15, 16}

\* number of grid cells of the region (the box LAT_RANGE x LON_RANGE)
RegionCells == 3


----------------------------------------------------------------------------
(* Program constants *)

\* tail(6) / [-6:] : the rolling window of the indicator
Window == 6

\* alert threshold 0.77
AlertThreshold == 77

\* range(0, 6): maps are made for the end month and the 5 months before it
MapMonths == 6

\* day of month of the remote dataset's monthly time stamps and of map stamps
MidMonth == 16

\* blank / unparseable dateyrmo
Blank == 0

\* datetime.min (year 1, month 1, day 1)
DatetimeMin == [ym |-> 101, day |-> 1]

\* np.nan: no anomaly value is this low (values are in 1/100 or 1/1000 K)
NaN == -999999

\* a masked (undefined) cell of the remote grid
Masked == -888888

\* retries=5: the attempts of get_data_from_erddap and of the orchestrator's
\* fetch_with_retry call
Retries == 5

\* how many of the first attempts of a retry helper fail in a run
FailCounts == {0, Retries}

----------------------------------------------------------------------------
(* Calendar arithmetic on month keys: relativedelta(months=+-1) *)

NextMonth(k) == IF k % 100 = 12 THEN k + 89 ELSE k + 1

PrevMonth(k) == IF k % 100 = 1 THEN k - 89 ELSE k - 1

RECURSIVE MonthsBack(_, _)
MonthsBack(k, n) == IF n = 0 THEN k ELSE MonthsBack(PrevMonth(k), n - 1)

RECURSIVE MonthsAhead(_, _)
MonthsAhead(k, n) == IF n = 0 THEN k ELSE MonthsAhead(NextMonth(k), n - 1)

\* datetime comparison a < b
DateLT(a, b) == a.ym < b.ym \/ (a.ym = b.ym /\ a.day < b.day)

\* dateutil.parser.parse("YYYY-MM"): the missing day is taken from today
ParseYrMo(k, today) == [ym |-> k, day |-> today]

----------------------------------------------------------------------------
(* Sequences and sets *)

SetMax(S) == CHOOSE x \in S : \A y \in S : y <= x

SetMin(S) == CHOOSE x \in S : \A y \in S : x <= y

RECURSIVE SortedSeq(_)
SortedSeq(S) == IF S = {} THEN <<>>
                ELSE <<SetMin(S)>> \o SortedSeq(S \ {SetMin(S)})

Range(s) == {s[i] : i \in 1..Len(s)}

Keys(df) == {df[i].dateyrmo : i \in 1..Len(df)}

\* the last n elements of s (pandas tail(n), [-n:])
LastN(s, n) == IF Len(s) <= n THEN s ELSE SubSeq(s, Len(s) - n + 1, Len(s))

RECURSIVE InsertRow(_, _)
InsertRow(s, r) ==
    IF s = <<>> THEN <<r>>
    ELSE IF s[Len(s)].dateyrmo <= r.dateyrmo THEN Append(s, r)
    ELSE Append(InsertRow(SubSeq(s, 1, Len(s) - 1), r), s[Len(s)])

\* df.sort_values(by="dateyrmo", ignore_index=True)
RECURSIVE SortRows(_)
SortRows(s) == IF s = <<>> THEN <<>>
               ELSE InsertRow(SortRows(SubSeq(s, 1, Len(s) - 1)), s[Len(s)])

RECURSIVE Sum(_)
Sum(s) == IF s = <<>> THEN 0 ELSE s[1] + Sum(Tail(s))

\* round(x, 2) of the quotient a/n, in hundredths: nearest, ties to even
RoundDiv(a, n) ==
    LET q == a \div n
        r == a % n
    IN  IF 2 * r < n THEN q
        ELSE IF 2 * r > n THEN q + 1
        ELSE IF q % 2 = 0 THEN q ELSE q + 1

\* the elements of s that are numbers (pandas mean() skips NaN)
NotNaN(s) ==
    LET IsNumber(x) == x # NaN
    IN  SelectSeq(s, IsNumber)

\* round(series.mean(), 2) of a sequence of anomalies: NaN entries are
\* skipped, and the mean of no numbers is NaN
Mean(s) ==
    IF NotNaN(s) = <<>> THEN NaN ELSE RoundDiv(Sum(NotNaN(s)), Len(NotNaN(s)))

AnomCol(df) == [i \in 1..Len(df) |-> df[i].anom]

----------------------------------------------------------------------------
(* update_total_indicator_2025.py *)

\* get_data_from_erddap, lines 175-204: the attempt loop from attempt
\* `attempt` on, when the first `fails` attempts raise OSError; falling out
\* of the loop returns None
RECURSIVE OpenLoop(_, _, _)
OpenLoop(retries, fails, attempt) ==
    IF attempt > retries THEN "none"
    ELSE IF attempt > fails THEN "opened"
    ELSE IF attempt = retries THEN "exit1"
    ELSE OpenLoop(retries, fails, attempt + 1)

\* get_data_from_erddap whose every attempt succeeds: the loop is left out
GetDataFromErddap_AlwaysOpens(retries, fails) == "opened"

\* get_data_from_erddap(dataset_name, retries)
GetDataFromErddap(retries, fails) == OpenLoop(retries, fails, 1)

\* a row of the indicator CSV (the two leading display-date columns and the
\* constant window/flag columns carry no information the pipeline reads)
Row(k, a, i) == [dateyrmo |-> k, anom |-> a, indicator |-> i]

\* pd.to_datetime(key, format="%Y-%m", errors="coerce") is not NaT: the key
\* is not blank and its month is one of the twelve
ValidKey(k) == k # Blank /\ (k % 100) \in 1..12

\* a load that sorts the rows and discards none
LoadSeries_KeepAll(rows) == SortRows(rows)

\* main, lines 331-347: drop rows whose dateyrmo does not parse, sort by month
LoadSeries(rows) ==
    LET Valid(r) == ValidKey(r.dateyrmo)
    IN  SortRows(SelectSeq(rows, Valid))

\* get_missing_dates without the set difference: every remote month
GetMissingDates_All(df, dates) == SortedSeq(dates)

\* get_missing_dates: sorted(erddap_dates - local_dates)
GetMissingDates(df, dates) == SortedSeq(dates \ Keys(df))

\* the step that keeps every row, the later ones too
DropBeyond_KeepAll(df, latest) == SortRows(df)

\* main, lines 371-374: keep the rows not later than the remote newest month
DropBeyond(df, latest) ==
    LET Keep(r) == r.dateyrmo <= latest
    IN  SortRows(SelectSeq(df, Keep))

\* process_missing_data, line 254: np.ma.filled(anom_data, np.nan)
Filled(cells) == [i \in 1..Len(cells) |-> IF cells[i] = Masked THEN NaN ELSE cells[i]]

\* process_missing_data, line 254: ndarray.mean() of the filled cells, in
\* 1/1000: NaN as soon as one cell is NaN (the seed's cell values have means
\* that are whole thousandths)
RegionMean(cells) ==
    IF \E i \in 1..Len(cells) : Filled(cells)[i] = NaN THEN NaN
    ELSE Sum(Filled(cells)) \div Len(cells)

\* process_missing_data, line 258: mean of the last six of the stored anom
\* column followed by the unrounded new anomaly (raw, in thousandths); the
\* six are taken by position, then mean() skips the NaN among them
CurrentIndicator(df, raw) ==
    LET col == [i \in 1..Len(df) |->
                   IF df[i].anom = NaN THEN NaN ELSE 10 * df[i].anom]
        w   == NotNaN(LastN(Append(col, raw), Window))
    IN  IF w = <<>> THEN NaN ELSE RoundDiv(Sum(w), 10 * Len(w))

\* process_missing_data, lines 266-281: the row appended for month k
ObservedRow(df, k, raw) ==
    Row(k, IF raw = NaN THEN NaN ELSE RoundDiv(raw, 10), CurrentIndicator(df, raw))

\* process_missing_data: the loop over the missing months, in order; a month
\* whose processing raises ValueError/IndexError is reported and skipped
RECURSIVE ProcessMissingData(_, _, _, _)
ProcessMissingData(df, grid, bad, missing) ==
    IF missing = <<>> THEN df
    ELSE LET k == Head(missing)
         IN  IF k \in bad
             THEN ProcessMissingData(df, grid, bad, Tail(missing))
             ELSE ProcessMissingData(
                      SortRows(Append(df, ObservedRow(df, k, RegionMean(grid[k])))),
                      grid, bad, Tail(missing))

\* main, line 386: round(df['anom'][-6:].mean(), 2)
NextIndex(df) == Mean(LastN(AnomCol(df), Window))

\* main, lines 381-400: the forecast row for the month after the last row
ForecastRow(df) == Row(NextMonth(df[Len(df)].dateyrmo), 0, NextIndex(df))

\* the alert rule with a strict comparison
AlertStatus_Strict(ind) == IF ind > AlertThreshold THEN "Alert" ELSE "No Alert"

\* main, line 407 / control main, line 391
AlertStatus(ind) == IF ind >= AlertThreshold THEN "Alert" ELSE "No Alert"

\* main, lines 404-414: the summary of the last row
WebData(row) ==
    [alert |-> AlertStatus(row.indicator), fc_date |-> row.dateyrmo,
     new_index |-> row.indicator]

\* main, lines 416-420: drop rows without dateyrmo, sort
FinalCleanup(df) ==
    LET Valid(r) == r.dateyrmo # Blank
    IN  SortRows(SelectSeq(df, Valid))

\* main, lines 356-428, on a dataset that opened: the series and the summary
\* it saves, the months whose grid it read; ok is FALSE when line 382 raises
\* IndexError on an empty frame (nothing is saved)
UpdateOutcome(rows, grid, bad) ==
    LET df0     == LoadSeries(rows)
        missing == GetMissingDates(df0, DOMAIN grid)
        df1     == DropBeyond(df0, SetMax(DOMAIN grid))
        df2     == ProcessMissingData(df1, grid, bad, missing)
    IN  IF df2 = <<>>
        THEN [ok |-> FALSE, csv |-> rows, web |-> <<>>, read |-> missing,
              kept |-> {}, fc |-> Blank]
        ELSE LET fr  == ForecastRow(df2)
                 df3 == Append(df2, fr)
             IN  [ok |-> TRUE, csv |-> FinalCleanup(df3), web |-> <<WebData(fr)>>,
                  read |-> missing, kept |-> Keys(df1), fc |-> fr.dateyrmo]

----------------------------------------------------------------------------
(* make_monthly_maps_2025.py *)

\* shutil.copyfile(temp, IMAGE_DIR / "sst_<stamp>.png"): the file becomes
\* the most recently modified one
WriteMap(files, k) ==
    LET Other(f) == f # k
    IN  Append(SelectSeq(files, Other), k)

\* main, lines 335-365: for i in range(0, 6), the map of end_date - i months
RECURSIVE MakeMaps(_, _, _)
MakeMaps(files, end, i) ==
    IF i = MapMonths THEN files
    ELSE MakeMaps(WriteMap(files, MonthsBack(end, i)), end, i + 1)

----------------------------------------------------------------------------
(* control_total_data_2025.py *)

\* fetch_with_retry, lines 93-122: the attempt loop from attempt `attempt`
\* on, when the first `fails` requests fail with a connection error, a
\* timeout or a retriable status
RECURSIVE FetchLoop(_, _, _)
FetchLoop(retries, fails, attempt) ==
    IF attempt > retries THEN "none"
    ELSE IF attempt > fails THEN "response"
    ELSE IF attempt = retries THEN "raise"
    ELSE FetchLoop(retries, fails, attempt + 1)

\* fetch_with_retry(session, url, retries, ...)
FetchWithRetry(retries, fails) == FetchLoop(retries, fails, 1)

\* get_latest_erddap_date that returns a date whatever the fetch did
GetLatestErddapDate_NeverExits(fails) == 0

\* get_latest_erddap_date: the exit status it ends the process with (0: it
\* returns the parsed date), the request error being caught at line 193
GetLatestErddapDate(fails) ==
    IF FetchWithRetry(Retries, fails) = "response" THEN 0 ELSE 1

\* split_observed_and_forecast: rows with a valid month <= the remote month
ObservedPart(rows, ym) ==
    LET Obs(r) == ValidKey(r.dateyrmo) /\ r.dateyrmo <= ym
    IN  SortRows(SelectSeq(rows, Obs))

\* split_observed_and_forecast: rows with a valid month > the remote month
ForecastPart(rows, ym) ==
    LET Fc(r) == ValidKey(r.dateyrmo) /\ r.dateyrmo > ym
    IN  SortRows(SelectSeq(rows, Fc))

\* get_latest_indicator_date: parse() of the last observed row's dateyrmo
GetLatestIndicatorDate(rows, ym, today) ==
    LET observed == ObservedPart(rows, ym)
    IN  IF rows = <<>> \/ observed = <<>> THEN DatetimeMin
        ELSE ParseYrMo(observed[Len(observed)].dateyrmo, today)

\* has_valid_forecast_row without the month comparison: any row counts
HasValidForecastRow_AnyRow(rows, ym) == rows # <<>>

\* has_valid_forecast_row
HasValidForecastRow(rows, ym) == rows # <<>> /\ ForecastPart(rows, ym) # <<>>

\* find_latest_file_date: the stamp of the most recently modified sst_2 file
FindLatestFileDate(files) ==
    IF files = <<>> THEN DatetimeMin
    ELSE [ym |-> files[Len(files)], day |-> MidMonth]

\* plot_total_tool_2025.py main, line 217: the end month of the plot, the
\* -e argument or else the newest month of the series
PlotEnd(rows, enddate) ==
    IF enddate # Blank THEN enddate ELSE SetMax(Keys(LoadSeries(rows)))

\* plot_total_tool_2025.py main, lines 225-237: plot_index saves
\* indicator_latest.png; when the end month is December, Path.replace
\* renames that file to indicator_<year>.png.  A plot is known by the end
\* month it shows.
PlotStage(img, rows, enddate) ==
    LET end   == PlotEnd(rows, enddate)
        year  == end \div 100
        saved == [img EXCEPT !.latest = <<end>>]
    IN  IF end % 100 = 12
        THEN [latest |-> <<>>,
              yearly |-> [y \in (DOMAIN img.yearly) \cup {year} |->
                             IF y = year THEN saved.latest[1] ELSE img.yearly[y]]]
        ELSE saved

\* main, line 339
NeedsObservedUpdate(latestTotal, latestErddap) == DateLT(latestTotal, latestErddap)

\* main, line 356
MapsBehind(latestMap, latestErddap) == DateLT(latestMap, latestErddap)

\* the selection that never prefers the forecast row
SummaryRow_LastObserved(rows, ym) ==
    LET observed == ObservedPart(rows, ym)
    IN  observed[Len(observed)]

\* main, lines 376-380: the row the dashboard summary describes
SummaryRow(rows, ym) ==
    LET forecast == ForecastPart(rows, ym)
        observed == ObservedPart(rows, ym)
    IN  IF forecast # <<>> THEN forecast[Len(forecast)]
        ELSE observed[Len(observed)]

\* the summary step that writes nothing
BuildSummary_KeepOld(rows, ym, old) == old

\* the summary step that describes the last row of the file, whatever its key
BuildSummary_Unguarded(rows, ym, old) == <<WebData(rows[Len(rows)])>>

\* main, lines 369-411: the web_data.json left by the summary step.  The old
\* file stays when the step raises: on an empty file (line 372), on
\* observed.iloc[-1] of an empty frame (line 380), on a selected row whose
\* dateyrmo is blank (line 384)
BuildSummary(rows, ym, old) ==
    IF rows = <<>> \/ (ForecastPart(rows, ym) = <<>> /\ ObservedPart(rows, ym) = <<>>)
    THEN old
    ELSE IF SummaryRow(rows, ym).dateyrmo = Blank THEN old
    ELSE <<WebData(SummaryRow(rows, ym))>>

----------------------------------------------------------------------------
(* The seed and the months of the model *)

\* the observed months of the seed series and their grid means (1/1000)
SeedKeys == <<202507, 202508, 202509, 202510, 202511>>

SeedRaw == <<731, 812, 948, 664, 1023>>

\* the regional mean (1/1000, not yet rounded to two decimals) that the
\* remote grid holds for month k when all its cells are defined
GridRaw(k) ==
    IF k \in Range(SeedKeys)
    THEN SeedRaw[CHOOSE i \in 1..Len(SeedKeys) : SeedKeys[i] = k]
    ELSE 404 + 396 * ((k % 100) % 3)

\* the states of a month's region: every cell defined, some cells masked,
\* every cell masked
Quality == {"ok", "partial", "empty"}

\* the cells of month k's region: values spread evenly around GridRaw(k);
\* in a "partial" region the first cell is masked
GridCells(k, q) ==
    [i \in 1..RegionCells |->
        IF q = "empty" \/ (q = "partial" /\ i = 1) THEN Masked
        ELSE GridRaw(k) + 20 * (2 * i - (RegionCells + 1))]

SeedGrid == [k \in Range(SeedKeys) |-> GridCells(k, "ok")]

\* the seed's observed rows are what process_missing_data makes of them
SeedObserved == ProcessMissingData(<<>>, SeedGrid, {}, SeedKeys)

\* the seed as the update stage leaves it, forecast row last
SeedOutcome == Append(SeedObserved, ForecastRow(SeedObserved))

\* the seed with the malformed last row (",,,,,,": blank dateyrmo, no values;
\* nothing reads the other fields of such a row) in place of the forecast
SeedBlank == Append(SeedObserved, Row(Blank, 0, 0))

SeedLast == SeedKeys[Len(SeedKeys)]

NewMonths == {MonthsAhead(SeedLast, i) : i \in 1..NumNew}

AllMonths == Range(SeedKeys) \cup NewMonths

NoDate == [ym |-> 0, day |-> 0]

\* the record of a step: which program ran and what it decided; tick tells
\* two successive runs apart
Idle(kind) ==
    [kind |-> kind, tick |-> last.tick, day |-> 0, exit |-> 0, erddapLatest |-> 0,
     latestTotal |-> NoDate, latestMap |-> NoDate,
     needsObs |-> FALSE, missingFc |-> FALSE,
     ranUpdate |-> FALSE, updateOk |-> FALSE, ranPlot |-> FALSE,
     ranMaps |-> FALSE, mapsArg |-> 0, mapsOk |-> FALSE, read |-> <<>>,
     fetchFails |-> 0, openFails |-> 0]

Ran(kind) == [Idle(kind) EXCEPT !.tick = 1 - last.tick]

\* no retry helper is being followed
NoCall ==
    [helper |-> "none", retries |-> 0, backoff |-> 0, outs |-> <<>>,
     attempt |-> 0, made |-> 0, sleeps |-> <<>>, status |-> "idle"]

\* no instance of the update stage is being followed
NoProc == <<>>

\* data/images without any plot of the indicator
NoImages == [latest |-> <<>>, yearly |-> <<>>]

\* data/json without any El Nino file
NoElnino == [main |-> <<>>, archive |-> <<>>]

\* before any run: no summary, no maps, no plots, the remote holds the
\* seed's months
SeedState ==
    /\ images = NoImages
    /\ elnino = NoElnino
    /\ web = <<>>
    /\ maps = <<>>
    /\ mapsDone = 0
    /\ erddap = SeedGrid
    /\ unreadable = {}
    /\ last = [kind |-> "init", tick |-> 0, day |-> 0, exit |-> 0,
               erddapLatest |-> 0, latestTotal |-> NoDate, latestMap |-> NoDate,
               needsObs |-> FALSE, missingFc |-> FALSE,
               ranUpdate |-> FALSE, updateOk |-> FALSE, ranPlot |-> FALSE,
               ranMaps |-> FALSE, mapsArg |-> 0, mapsOk |-> FALSE, read |-> <<>>,
               fetchFails |-> 0, openFails |-> 0]

Init ==
    /\ \/ csv = SeedOutcome /\ fcMade = {NextMonth(SeedLast)}
       \/ csv = SeedBlank /\ fcMade = {}
    /\ call = NoCall
    /\ proc = NoProc
    /\ SeedState

----------------------------------------------------------------------------
(* The remote dataset, which this system does not own *)

\* the provider publishes month k (newer than all, or a back-fill) with a
\* region of quality q; `bad` makes reads of its grid raise (at most one
\* month at a time is unreadable or has masked cells)
RemotePublish(k, q, bad) ==
    /\ k \notin DOMAIN erddap
    /\ (bad \/ q # "ok") =>
           /\ unreadable = {}
           /\ \A m \in DOMAIN erddap : erddap[m] = GridCells(m, "ok")
    /\ bad => q = "ok"
    /\ erddap' = [m \in DOMAIN erddap \cup {k} |->
                     IF m = k THEN GridCells(k, q) ELSE erddap[m]]
    /\ unreadable' = IF bad THEN unreadable \cup {k} ELSE unreadable
    /\ last' = Idle("remote")
    /\ UNCHANGED <<csv, web, maps, fcMade, mapsDone, call, proc, images, elnino>>

\* the provider withdraws its newest month (never more than the newest of
\* the months the seed was built from)
RemoteRetract ==
    /\ Range(SeedKeys) \subseteq DOMAIN erddap
    /\ LET k == SetMax(DOMAIN erddap)
       IN  /\ erddap' = [m \in DOMAIN erddap \ {k} |-> erddap[m]]
           /\ unreadable' = unreadable \ {k}
    /\ last' = Idle("remote")
    /\ UNCHANGED <<csv, web, maps, fcMade, mapsDone, call, proc, images, elnino>>

----------------------------------------------------------------------------
(* Runs *)

\* what a run of update_total_indicator_2025.py leaves: openOk is FALSE when
\* get_data_from_erddap gives up (sys.exit(1) before anything is written)
UpdateStage(rows, made, openOk) ==
    LET o == UpdateOutcome(rows, erddap, unreadable)
    IN  IF openOk /\ o.ok
        THEN [ok |-> TRUE, csv |-> o.csv, web |-> o.web, read |-> o.read,
              made |-> (made \cap o.kept) \cup {o.fc}]
        ELSE [ok |-> FALSE, csv |-> rows, web |-> <<>>,
              read |-> IF openOk THEN o.read ELSE <<>>, made |-> made]

\* python update_total_indicator_2025.py, run on its own; the first `fails`
\* attempts to open the remote dataset raise OSError
UpdateMain(fails) ==
    LET openOk == GetDataFromErddap(Retries, fails) = "opened"
        u      == UpdateStage(csv, fcMade, openOk)
    IN  /\ csv' = u.csv
        /\ web' = IF u.ok THEN u.web ELSE web
        /\ fcMade' = u.made
        /\ last' = [Ran("update") EXCEPT
                       !.exit = IF u.ok THEN 0 ELSE 1,
                       !.erddapLatest = SetMax(DOMAIN erddap),
                       !.ranUpdate = TRUE, !.updateOk = u.ok, !.read = u.read,
                       !.openFails = fails]
        /\ UNCHANGED <<maps, erddap, unreadable, mapsDone, call, proc, images, elnino>>

\* python control_total_data_2025.py whose fetch of time[(last)] fails on
\* every attempt: get_latest_erddap_date calls sys.exit(1)
ControlFetchFails(today, fails) ==
    /\ GetLatestErddapDate(fails) # 0
    /\ last' = [Ran("control") EXCEPT !.day = today, !.fetchFails = fails,
                                       !.exit = GetLatestErddapDate(fails)]
    /\ UNCHANGED <<csv, web, maps, erddap, unreadable, fcMade, mapsDone,
                   call, proc, images, elnino>>

\* python control_total_data_2025.py, run on day `today` of a month: the
\* first fetchFails requests for time[(last)] fail, the first openFails
\* attempts of the update stage to open the dataset fail, mapsOk tells
\* whether the map stage can open its datasets, plotOk whether the plot
\* stage finds data/resources/loggerhead_indx.csv under its working
\* directory (it resolves its paths from Path.cwd(), line 199)
ControlMain(today, fetchFails, openFails, mapsOk, plotOk) ==
    LET ym          == SetMax(DOMAIN erddap)
        openOk      == GetDataFromErddap(Retries, openFails) = "opened"
        latestErd   == [ym |-> ym, day |-> MidMonth]
        latestTotal == GetLatestIndicatorDate(csv, ym, today)
        latestMap   == FindLatestFileDate(maps)
        needsObs    == NeedsObservedUpdate(latestTotal, latestErd)
        missingFc   == ~HasValidForecastRow(csv, ym)
        runUpdate   == needsObs \/ missingFc
        u           == IF runUpdate THEN UpdateStage(csv, fcMade, openOk)
                       ELSE [ok |-> FALSE, csv |-> csv, web |-> <<>>,
                             read |-> <<>>, made |-> fcMade]
        runMaps     == MapsBehind(latestMap, latestErd)
        webAfter    == IF u.ok THEN u.web ELSE web
    IN  /\ GetLatestErddapDate(fetchFails) = 0
        /\ csv' = u.csv
        /\ fcMade' = u.made
        /\ maps' = IF runMaps /\ mapsOk THEN MakeMaps(maps, ym, 0) ELSE maps
        /\ mapsDone' = IF runMaps /\ mapsOk THEN ym ELSE mapsDone
        /\ web' = BuildSummary(u.csv, ym, webAfter)
        /\ last' = [Ran("control") EXCEPT
                       !.day = today, !.erddapLatest = ym,
                       !.latestTotal = latestTotal, !.latestMap = latestMap,
                       !.needsObs = needsObs, !.missingFc = missingFc,
                       !.ranUpdate = runUpdate, !.updateOk = u.ok,
                       !.ranPlot = u.ok, !.ranMaps = runMaps,
                       !.mapsArg = IF runMaps THEN ym ELSE 0,
                       !.mapsOk = runMaps /\ mapsOk, !.read = u.read,
                       !.fetchFails = fetchFails,
                       !.openFails = IF runUpdate THEN openFails ELSE 0]
        /\ images' = IF u.ok /\ plotOk THEN PlotStage(images, u.csv, Blank)
                   ELSE images
        /\ UNCHANGED <<erddap, unreadable, call, proc, elnino>>

\* The series pipeline, every published region fully defined.  The map
\* stage reads the SST datasets, which are
\* not the anomaly dataset of the update stage; here they cannot be opened
\* (make_monthly_maps_2025.py exits in open_xr_dataset_with_retry), so the
\* image directory stays as seeded.  No step of the series reads it.  The
\* orchestrator is started outside the project root, so the plot stage does
\* not find the series and leaves no plot.
Next ==
    \/ \E k \in AllMonths, bad \in BOOLEAN : RemotePublish(k, "ok", bad)
    \/ RemoteRetract
    \/ \E fails \in FailCounts : UpdateMain(fails)
    \/ \E today \in RunDays, fails \in FailCounts : ControlFetchFails(today, fails)
    \/ \E today \in RunDays, fetchFails \in FailCounts, openFails \in FailCounts :
           ControlMain(today, fetchFails, openFails, FALSE, FALSE)

Spec == Init /\ [][Next]_vars

\* The map directory.  The provider publishes readable months in order and
\* the map stage may succeed.
NextMaps ==
    \/ \E k \in AllMonths :
           k = NextMonth(SetMax(DOMAIN erddap)) /\ RemotePublish(k, "ok", FALSE)
    \/ RemoteRetract
    \/ \E today \in RunDays, fetchFails \in FailCounts, openFails \in FailCounts,
          mapsOk \in BOOLEAN :
           ControlMain(today, fetchFails, openFails, mapsOk, FALSE)

SpecMaps == Init /\ [][NextMaps]_vars

\* The regional mean.  The provider publishes months in order, with regions
\* that can have masked cells, and the update stage runs on its own.
NextGrid ==
    \/ \E k \in AllMonths, q \in Quality :
           k = NextMonth(SetMax(DOMAIN erddap)) /\ RemotePublish(k, q, FALSE)
    \/ RemoteRetract
    \/ \E fails \in FailCounts : UpdateMain(fails)

SpecGrid == Init /\ [][NextGrid]_vars

----------------------------------------------------------------------------
(* The retry helpers, followed attempt by attempt *)

\* the largest `retries` argument a followed call is given
MaxRetries == 3

\* backoff_seconds: 20 is the default of the two dataset openers, 10 is what
\* get_latest_erddap_date passes to fetch_with_retry
Backoffs == {10, 20}

\* what an attempt to open a dataset does: it returns the dataset, raises
\* OSError, or raises some other exception
OpenOutcomes == {"ok", "oserror", "other"}

\* what a request does: a response that passes raise_for_status, a response
\* whose status is in retriable_statuses, a response with another error
\* status (404), a connection error, a timeout, an exception that is none
\* of these
FetchOutcomes == {"ok", "retriable", "notfound", "connection", "timeout", "other"}

\* sleep after every failed attempt alike
SleepFor_Constant(backoff, attempt) == backoff

\* sleep_for = backoff_seconds * attempt
SleepFor(backoff, attempt) == backoff * attempt

\* an opener that retries whatever the attempt raised
RetriedByOpen_Any(o) == o # "ok"

\* except OSError: the failures a dataset opener retries
RetriedByOpen(o) == o = "oserror"

\* except (requests.ConnectionError, requests.Timeout, requests.HTTPError):
\* a status in retriable_statuses is raised as HTTPError at line 96 and any
\* other error status by resp.raise_for_status() at line 100
RetriedByFetch(o) == o \in {"retriable", "notfound", "connection", "timeout"}

\* the body of the for loop of get_data_from_erddap / of
\* open_xr_dataset_with_retry, once
OpenAttempt(c) ==
    LET o == c.outs[c.attempt]
    IN  IF o = "ok"
        THEN [c EXCEPT !.made = @ + 1, !.status = "returned"]
        ELSE IF RetriedByOpen(o)
        THEN IF c.attempt = c.retries
             THEN [c EXCEPT !.made = @ + 1, !.status = "exit1"]
             ELSE [c EXCEPT !.made = @ + 1, !.attempt = @ + 1,
                            !.sleeps = Append(@, SleepFor(c.backoff, c.attempt))]
        ELSE [c EXCEPT !.made = @ + 1, !.status = "exit1"]

\* the body of the for loop of fetch_with_retry, once
FetchAttempt(c) ==
    LET o == c.outs[c.attempt]
    IN  IF o = "ok"
        THEN [c EXCEPT !.made = @ + 1, !.status = "returned"]
        ELSE IF RetriedByFetch(o)
        THEN IF c.attempt = c.retries
             THEN [c EXCEPT !.made = @ + 1, !.status = "raised"]
             ELSE [c EXCEPT !.made = @ + 1, !.attempt = @ + 1,
                            !.sleeps = Append(@, SleepFor(c.backoff, c.attempt))]
        ELSE [c EXCEPT !.made = @ + 1, !.status = "raised"]

\* the calls of helper h with outcomes from O: every retries from -1 up,
\* every backoff, every sequence of outcomes of the attempts
CallsOf(h, O) ==
    UNION {{[helper |-> h, retries |-> r, backoff |-> b, outs |-> o,
             attempt |-> 1, made |-> 0, sleeps |-> <<>>, status |-> "running"] :
               b \in Backoffs, o \in [1..(IF r > 0 THEN r ELSE 0) -> O]} :
           r \in -1..MaxRetries}

InitRetry ==
    /\ csv = SeedOutcome /\ fcMade = {NextMonth(SeedLast)}
    /\ SeedState
    /\ proc = NoProc
    /\ call \in CallsOf("get_data_from_erddap", OpenOutcomes)
                \cup CallsOf("open_xr_dataset_with_retry", OpenOutcomes)
                \cup CallsOf("fetch_with_retry", FetchOutcomes)

\* get_data_from_erddap: the next pass of `for attempt in range(1, retries + 1)`,
\* or the end of the loop (the function then returns None)
GetDataFromErddapStep ==
    /\ call.helper = "get_data_from_erddap" /\ call.status = "running"
    /\ call' = IF call.attempt > call.retries THEN [call EXCEPT !.status = "none"]
               ELSE OpenAttempt(call)
    /\ UNCHANGED <<pipeline, proc>>

\* open_xr_dataset_with_retry: the same loop in the map stage
OpenXrDatasetStep ==
    /\ call.helper = "open_xr_dataset_with_retry" /\ call.status = "running"
    /\ call' = IF call.attempt > call.retries THEN [call EXCEPT !.status = "none"]
               ELSE OpenAttempt(call)
    /\ UNCHANGED <<pipeline, proc>>

\* fetch_with_retry: the next pass of its loop, or the end of the loop
FetchWithRetryStep ==
    /\ call.helper = "fetch_with_retry" /\ call.status = "running"
    /\ call' = IF call.attempt > call.retries THEN [call EXCEPT !.status = "none"]
               ELSE FetchAttempt(call)
    /\ UNCHANGED <<pipeline, proc>>

NextRetry ==
    \/ GetDataFromErddapStep
    \/ OpenXrDatasetStep
    \/ FetchWithRetryStep

SpecRetry == InitRetry /\ [][NextRetry]_vars

----------------------------------------------------------------------------
(* Vocabulary of the properties *)

\* the remote dataset's newest month
RemoteLatest == SetMax(DOMAIN erddap)

\* this step is an orchestrator run that got the remote newest month
ControlRun == last'.kind = "control" /\ last'.tick # last.tick /\ last'.exit = 0

\* this step is a run in which the update stage reached its save
UpdateSaved == last'.tick # last.tick /\ last'.updateOk

\* the rows of a series that no forecast generator wrote
RealRows(rows, made) ==
    LET Real(r) == r.dateyrmo \notin made
    IN  SelectSeq(rows, Real)

\* the rows of a series that have a month
MonthRows(rows) ==
    LET HasMonth(r) == r.dateyrmo # Blank
    IN  SelectSeq(rows, HasMonth)

----------------------------------------------------------------------------
(* C1 *)

\* the persisted series ends with the forecast row for M+1, the row before
\* it is the newest real observed month M, and the remote newest is M+1
C1_Case ==
    /\ Len(csv) >= 2
    /\ csv[Len(csv)].dateyrmo \in fcMade
    /\ csv[Len(csv) - 1].dateyrmo \notin fcMade
    /\ csv[Len(csv)].dateyrmo = NextMonth(csv[Len(csv) - 1].dateyrmo)
    /\ RemoteLatest = csv[Len(csv)].dateyrmo

\* C1: in that state, on any run date, the orchestrator computes the local
\* newest observed month as M (the forecast row is not counted) and finds
\* needs_observed_update true.
C1_ObservedStaleDetected ==
    [][(ControlRun /\ C1_Case) =>
          /\ last'.latestTotal.ym = csv[Len(csv) - 1].dateyrmo
          /\ last'.needsObs]_vars

----------------------------------------------------------------------------
(* C2 *)

\* C2: no row written by the forecast generator (placeholder anomaly 0)
\* stays in the series as an observed row: only the last row of the
\* persisted series is ever a forecast-generated one.
C2_NoForecastRowKeptAsObserved ==
    \A i \in 1..Len(csv) - 1 : csv[i].dateyrmo \notin fcMade

\* C2, first half: an update run that reaches the save has read from the
\* remote grid every remote month that was stored only as a forecast row.
C2_ForecastMonthRefetched ==
    [][UpdateSaved =>
          \A k \in DOMAIN erddap \cap fcMade : k \in Range(last'.read)]_vars

----------------------------------------------------------------------------
(* C3 *)

\* state Current: the newest row not later than the remote newest month is
\* that month, and a row for the following month exists
C3_Current ==
    /\ RemoteLatest \in Keys(csv)
    /\ NextMonth(RemoteLatest) \in Keys(csv)

\* C3: in state Current an orchestrator run invokes neither the update
\* stage nor the plot stage, whatever the day of the run.
C3_CurrentRunsNothing ==
    [][(ControlRun /\ C3_Current) =>
          (~last'.ranUpdate /\ ~last'.ranPlot)]_vars

----------------------------------------------------------------------------
(* C4 *)

\* C4: when the map stage last completed for the remote newest month R, the
\* next orchestrator run finds the newest local map month to be R and does
\* not invoke the map stage.
C4_MapsNotRedone ==
    [][(ControlRun /\ mapsDone = RemoteLatest) =>
          (last'.latestMap.ym = RemoteLatest /\ ~last'.ranMaps)]_vars

----------------------------------------------------------------------------
(* C5 *)

\* C5: two update-stage runs in succession against the same remote: the
\* second leaves exactly the series the first persisted.
C5_UpdateIdempotent ==
    [][(last.updateOk /\ UpdateSaved) => csv' = csv]_vars

----------------------------------------------------------------------------
(* C6 *)

\* C6: after an update-stage run that reached the save, exactly one row is a
\* forecast row, it is the last row, and its month is one calendar month
\* after the newest observed row's and later than the remote newest month.
C6_ForecastInvariant ==
    last.updateOk =>
        /\ Len(csv) >= 2
        /\ Cardinality({i \in 1..Len(csv) : csv[i].dateyrmo \in fcMade}) = 1
        /\ csv[Len(csv)].dateyrmo \in fcMade
        /\ csv[Len(csv)].dateyrmo = NextMonth(csv[Len(csv) - 1].dateyrmo)
        /\ csv[Len(csv)].dateyrmo > RemoteLatest

----------------------------------------------------------------------------
(* C7 *)

\* state ForecastMissing: every remote month has a local row and no local row
\* is later than the remote newest month (a blank row has no month)
C7_ForecastMissing ==
    /\ DOMAIN erddap \subseteq Keys(csv)
    /\ \A i \in 1..Len(csv) : csv[i].dateyrmo <= RemoteLatest

----------------------------------------------------------------------------
(* C8 *)

\* C8: an orchestrator run invokes the update stage whenever some remote
\* month has no row in the persisted series.
C8_NoNeededWorkSkipped ==
    [][(ControlRun /\ ~(DOMAIN erddap \subseteq Keys(csv))) =>
          last'.ranUpdate]_vars

----------------------------------------------------------------------------
(* C9 *)

\* the anomalies of the (up to) six rows of rows that are chronologically
\* the most recent ones not later than month k
WindowEndingAt(rows, k) ==
    LET UpTo(r) == r.dateyrmo <= k
    IN  LastN(AnomCol(SortRows(SelectSeq(rows, UpTo))), Window)

RowOf(rows, k) == rows[CHOOSE i \in 1..Len(rows) : rows[i].dateyrmo = k]

\* C9: every observed row the update stage appended carries the mean of the
\* anomalies of the (up to) six chronologically most recent rows ending at
\* its own month.
C9_RollingWindow ==
    [][UpdateSaved =>
          \A k \in Range(last'.read) \cap Keys(csv') :
              RowOf(csv', k).indicator = Mean(WindowEndingAt(csv', k))]_vars

----------------------------------------------------------------------------
(* C10 *)

\* C10: the forecast row's indicator is the mean of the anomalies of the (up
\* to) six most recent observed rows; no forecast placeholder, its own or an
\* earlier forecast row's, is in that window.
C10_ForecastWindow ==
    last.updateOk =>
        csv[Len(csv)].indicator =
            Mean(LastN(AnomCol(RealRows(csv, fcMade)), Window))

----------------------------------------------------------------------------
(* C11 *)

\* the cells of a region that hold a value
DefinedCells(cells) ==
    LET IsDefined(c) == c # Masked
    IN  SelectSeq(cells, IsDefined)

\* this step is a run of the update stage (on its own or started by the
\* orchestrator)
UpdateRan == last'.tick # last.tick /\ last'.ranUpdate

\* C11: the anomaly stored for a month the update stage read is the mean of
\* the defined cells of its region, missing cells left out of the sum and of
\* the count, whenever the region has at least one defined cell.
C11_RegionalMeanSkipsMissing ==
    [][UpdateSaved =>
          \A k \in Range(last'.read) \ unreadable :
              DefinedCells(erddap[k]) # <<>> =>
                  /\ k \in Keys(csv')
                  /\ RowOf(csv', k).anom =
                         RoundDiv(Sum(DefinedCells(erddap[k])),
                                  10 * Len(DefinedCells(erddap[k])))]_vars

----------------------------------------------------------------------------
(* C12 *)

\* C12: a missing month whose region has no defined cell is skipped: the
\* update stage appends no row for it (so no undefined or made-up anomaly is
\* saved for it) and still appends the other missing months.
C12_UndefinedRegionSkipped ==
    [][UpdateSaved =>
          /\ \A k \in Range(last'.read) :
                IF DefinedCells(erddap[k]) = <<>>
                THEN k \in Keys(csv') => k \in fcMade'
                ELSE k \in unreadable \/ k \in Keys(csv')]_vars

----------------------------------------------------------------------------
(* C13 *)

\* the month keys of rows are strictly ascending (hence unique)
StrictlyAscending(rows) ==
    \A i \in 1..Len(rows) - 1 : rows[i].dateyrmo < rows[i + 1].dateyrmo

\* C13: the series an update-stage run saved never has two rows with the
\* same month key, and its rows are strictly ascending by month.
C13_UniqueAscending ==
    last.updateOk => (StrictlyAscending(csv) /\ Blank \notin Keys(csv))

\* an update run saved a series after appending two observed months
C13_Witness ==
    /\ last.updateOk
    /\ Len(last.read) >= 2
    /\ Range(last.read) \subseteq Keys(csv)

----------------------------------------------------------------------------
(* C14 *)

\* adjacent rows are exactly one calendar month apart
GapFree(rows) ==
    \A i \in 1..Len(rows) - 1 : rows[i + 1].dateyrmo = NextMonth(rows[i].dateyrmo)

\* the remote month axis has no hole
RemoteGapFree ==
    \A k \in DOMAIN erddap :
        k = SetMin(DOMAIN erddap) \/ PrevMonth(k) \in DOMAIN erddap

\* C14: from a gap-free series and a gap-free remote month axis, the series
\* an update-stage run saves (a run that skipped a month after an error
\* included) is gap-free from its earliest row through the forecast row.
C14_Contiguous ==
    [][(UpdateSaved /\ GapFree(MonthRows(csv)) /\ RemoteGapFree) =>
          GapFree(csv')]_vars

----------------------------------------------------------------------------
(* C15 *)

\* C15: a row once persisted as observed stays in the persisted series with
\* the same month, anomaly and indicator, whatever the remote does (its
\* newest month moving backwards included); only a forecast row is removed.
C15_AppendOnly ==
    [][\A i \in 1..Len(csv) :
          (csv[i].dateyrmo # Blank /\ csv[i].dateyrmo \notin fcMade) =>
              \E j \in 1..Len(csv') : csv'[j] = csv[i]]_vars

----------------------------------------------------------------------------
(* C16 *)

\* C16: an update-stage run that finds no remote month missing from the local
\* series leaves the indicator CSV and web_data.json as they were.
C16_NoNewDataNoWrite ==
    [][(UpdateRan /\ last'.kind = "update"
           /\ DOMAIN erddap \subseteq Keys(csv)) =>
          (csv' = csv /\ web' = web)]_vars

----------------------------------------------------------------------------
(* C17 *)

\* C17: when the update stage it invoked exits non-zero, the orchestrator
\* does not invoke the plot stage, leaves the series as it is, still decides
\* on the map stage, rebuilds the summary from the series as it stands and
\* ends with exit status 0.
C17_UpdateFailureTolerated ==
    [][(last'.kind = "control" /\ UpdateRan /\ ~last'.updateOk) =>
          /\ ~last'.ranPlot
          /\ csv' = csv
          /\ last'.ranMaps =
                 DateLT(FindLatestFileDate(maps),
                        [ym |-> RemoteLatest, day |-> MidMonth])
          /\ web' = <<WebData(SummaryRow(csv, RemoteLatest))>>
          /\ last'.exit = 0]_vars

\* an orchestrator run whose update stage failed went on to the map stage and
\* wrote the summary
C17_Witness ==
    /\ last.kind = "control"
    /\ last.ranUpdate /\ ~last.updateOk /\ last.openFails = Retries
    /\ last.ranMaps /\ last.mapsArg = RemoteLatest
    /\ web = <<WebData(csv[Len(csv)])>>

----------------------------------------------------------------------------
(* C18 *)

\* the newest month for which a local map exists (0: no map)
NewestMapMonth(files) == IF files = <<>> THEN 0 ELSE SetMax(Range(files))

\* C18: an orchestrator run invokes the map stage if and only if the newest
\* local map month is earlier than the remote newest month, whatever happened
\* to the update stage, and passes it the remote newest month.
C18_MapsIffBehind ==
    [][ControlRun =>
          /\ last'.ranMaps <=> (NewestMapMonth(maps) < RemoteLatest)
          /\ last'.ranMaps => last'.mapsArg = RemoteLatest]_vars

----------------------------------------------------------------------------
(* C19 *)

\* C19: an orchestrator run whose fetch of the remote newest month fails on
\* every attempt ends with a non-zero exit status, invokes no stage, writes
\* no summary and leaves the series alone.
C19_FetchFailureStopsRun ==
    [][(last'.kind = "control" /\ last'.tick # last.tick
           /\ last'.fetchFails >= Retries) =>
          /\ last'.exit # 0
          /\ ~last'.ranUpdate /\ ~last'.ranPlot /\ ~last'.ranMaps
          /\ csv' = csv /\ web' = web /\ maps' = maps]_vars

\* an orchestrator run gave up on the fetch while the series was stale and a
\* summary existed
C19_Witness ==
    /\ last.kind = "control"
    /\ last.fetchFails = Retries /\ last.exit = 1
    /\ ~(DOMAIN erddap \subseteq Keys(csv))
    /\ web # <<>>

----------------------------------------------------------------------------
(* C20 *)

\* C20: an update-stage run in which every attempt to open the remote dataset
\* fails ends with exit status 1 and leaves the indicator CSV and
\* web_data.json exactly as they were.
C20_OpenFailureNoPartialUpdate ==
    [][(UpdateRan /\ last'.kind = "update" /\ last'.openFails >= Retries) =>
          /\ last'.exit = 1
          /\ csv' = csv /\ web' = web]_vars

\* an update run gave up opening the dataset while remote months were
\* missing from the series and a summary existed
C20_Witness ==
    /\ last.kind = "update"
    /\ last.openFails = Retries /\ last.exit = 1
    /\ ~(DOMAIN erddap \subseteq Keys(csv))
    /\ web # <<>>

----------------------------------------------------------------------------
(* C21 *)

\* the failures the helpers are meant to retry: an I/O error on opening, a
\* retriable status, a connection error, a timeout
Transient(o) == o \in {"oserror", "retriable", "connection", "timeout"}

\* the followed call has ended
CallEnded == call.status \in {"returned", "exit1", "raised", "none"}

\* C21: a retry helper makes at most `retries` attempts, makes none after a
\* success, sleeps backoff_seconds * k after its k-th attempt when that one
\* failed transiently and k < retries, never sleeps after attempt number
\* `retries`, and has slept backoff_seconds * retries * (retries - 1) / 2 in
\* all when every one of the `retries` attempts failed.
C21_RetryDiscipline ==
    call.status # "idle" =>
        /\ call.made <= (IF call.retries > 0 THEN call.retries ELSE 0)
        /\ \A j \in 1..call.made :
              call.outs[j] = "ok" => (j = call.made /\ call.status = "returned")
        /\ call.status = "returned" => call.outs[call.made] = "ok"
        /\ \A k \in 1..call.made :
              (Transient(call.outs[k]) /\ k < call.retries) =>
                  (Len(call.sleeps) >= k /\ call.sleeps[k] = call.backoff * k)
        /\ Len(call.sleeps) <= call.made
        /\ Len(call.sleeps) < (IF call.retries > 0 THEN call.retries ELSE 1)
        /\ (CallEnded /\ call.retries >= 1 /\ call.made = call.retries
              /\ \A k \in 1..call.retries : call.outs[k] # "ok") =>
              Sum(call.sleeps) =
                  (call.backoff * call.retries * (call.retries - 1)) \div 2

\* a call gave up after three transient failures, having slept twice
C21_Witness ==
    /\ call.status \in {"exit1", "raised"}
    /\ call.retries = 3 /\ call.made = 3
    /\ \A k \in 1..3 : Transient(call.outs[k])
    /\ call.sleeps = <<call.backoff, 2 * call.backoff>>

----------------------------------------------------------------------------
(* C22 *)

\* C22: when an attempt to open the remote dataset raises an error that is
\* not an OSError, that attempt is the last one, nothing is slept after it
\* and the process exits with status 1, whichever attempt it was.
C22_NonIOErrorNoRetry ==
    call.helper \in {"get_data_from_erddap", "open_xr_dataset_with_retry"} =>
        \A k \in 1..call.made :
            call.outs[k] = "other" =>
                /\ call.made = k
                /\ call.status = "exit1"
                /\ Len(call.sleeps) = k - 1

\* the second of three allowed attempts raised an error that is not an
\* OSError, and the call ended there
C22_Witness ==
    /\ call.helper \in {"get_data_from_erddap", "open_xr_dataset_with_retry"}
    /\ call.retries = 3 /\ call.made = 2
    /\ call.outs[1] = "oserror" /\ call.outs[2] = "other"
    /\ call.status = "exit1"

----------------------------------------------------------------------------
(* C23 *)

\* C23: a response whose error status is not in retriable_statuses (404)
\* ends fetch_with_retry on that attempt: no sleep, no further request.
C23_NonRetriableStatusNoRetry ==
    call.helper = "fetch_with_retry" =>
        \A k \in 1..call.made :
            call.outs[k] = "notfound" =>
                /\ call.made = k
                /\ call.status = "raised"
                /\ Len(call.sleeps) = k - 1

----------------------------------------------------------------------------
(* The update stage, followed statement by statement                       *)
(*                                                                         *)
(* Instances of update_total_indicator_2025.py are separate processes that *)
(* share the series file and the summary file.  Nothing in the script      *)
(* takes a lock, and save_and_transfer_data writes the target paths        *)
(* themselves: open(json_path, 'w') and DataFrame.to_csv(csv_path) open    *)
(* the file for writing, which truncates it, and then write through a      *)
(* buffer that is flushed to the file piece by piece.                      *)

\* the instances of the update stage that may overlap
Inst == {1, 2}

\* rows that one flush of the write buffer carries to the file
FlushRows == 2

\* the columns the update stage reads by name
Required == {"dateyrmo", "anom"}

\* the header of a CSV file: the columns of its rows (an empty file has none)
Columns(rows) == IF rows = <<>> THEN {} ELSE DOMAIN rows[1]

\* a series file that was saved without the column col
Without(rows, col) ==
    [i \in 1..Len(rows) |-> [c \in (DOMAIN rows[i]) \ {col} |-> rows[i][c]]]

\* the part of a file that lies below a write made past its end: it reads
\* as a row without a month key
Hole == Row(Blank, NaN, NaN)

\* write(rows) by a writer whose file offset stands after n rows
WriteAt(file, n, rows) ==
    LET len == IF Len(file) > n + Len(rows) THEN Len(file) ELSE n + Len(rows)
    IN  [j \in 1..len |->
            IF j > n /\ j <= n + Len(rows) THEN rows[j - n]
            ELSE IF j <= Len(file) THEN file[j]
            ELSE Hole]

\* an instance that has not started
StartProc ==
    [pc |-> "start", rows |-> <<>>, df |-> <<>>, out |-> <<>>, web |-> <<>>,
     n |-> 0, remote |-> 0, latest |-> FALSE, at |-> "none"]

\* the seed after a careless hand edit: rows out of order, a row whose key
\* names a thirteenth month, a row without a key
SeedCorrupt ==
    <<SeedObserved[2], Row(100 * (SeedLast \div 100) + 13, 55, 55), SeedObserved[1],
      Row(Blank, 0, 0)>> \o SubSeq(SeedOutcome, 3, Len(SeedOutcome))

\* the shared files before the instances start: the series as the update
\* stage left it, a corrupted copy of it, or an export of it that lost a
\* column
InitProc ==
    /\ csv \in {SeedOutcome, SeedCorrupt, Without(SeedOutcome, "anom"),
                Without(SeedOutcome, "dateyrmo")}
    /\ fcMade = {NextMonth(SeedLast)}
    /\ call = NoCall
    /\ proc = [i \in Inst |-> StartProc]
    /\ SeedState

\* main, lines 331-347: read the series file.  pd.read_csv raises
\* EmptyDataError on an empty file and df["dateyrmo"] raises KeyError when
\* the column is missing; neither is caught (only FileNotFoundError is)
ProcLoad(i) ==
    /\ proc[i].pc = "start"
    /\ proc' = [proc EXCEPT
                   ![i].rows = csv,
                   ![i].df = IF "dateyrmo" \in Columns(csv) THEN LoadSeries(csv)
                             ELSE <<>>,
                   ![i].pc = IF "dateyrmo" \in Columns(csv) THEN "loaded"
                             ELSE "failed"]
    /\ UNCHANGED <<pipeline, call>>

\* main, lines 357-414: open the remote dataset, add the missing months and
\* the forecast row, build the summary.  df["anom"] is first read at line
\* 257 (or, with nothing missing, at line 386): a missing column raises
\* KeyError there, which except (ValueError, IndexError) does not catch
ProcOpen(i) ==
    /\ proc[i].pc = "loaded"
    /\ LET p == proc[i]
           o == UpdateOutcome(p.rows, erddap, unreadable)
       IN  proc' = [proc EXCEPT ![i] =
                IF "anom" \notin Columns(p.rows)
                THEN [p EXCEPT !.remote = p.remote + 1, !.pc = "failed"]
                ELSE IF ~o.ok
                THEN [p EXCEPT !.remote = p.remote + 1, !.pc = "failed"]
                ELSE [p EXCEPT !.remote = p.remote + 1, !.pc = "computed",
                               !.out = o.csv, !.web = o.web]]
    /\ UNCHANGED <<pipeline, call>>

\* save_and_transfer_data, lines 304-307: open(json_path, 'w'), json.dump
ProcSaveJson(i) ==
    /\ proc[i].pc = "computed"
    /\ web' = proc[i].web
    /\ proc' = [proc EXCEPT ![i].pc = "json_saved"]
    /\ UNCHANGED <<csv, maps, erddap, unreadable, fcMade, mapsDone, last,
                   call, images, elnino>>

\* save_and_transfer_data, line 314: to_csv opens csv_path for writing,
\* which truncates the file
ProcCsvOpen(i) ==
    /\ proc[i].pc = "json_saved"
    /\ csv' = <<>>
    /\ proc' = [j \in Inst |->
                   IF j = i THEN [proc[i] EXCEPT !.pc = "writing", !.n = 0,
                                                 !.latest = TRUE]
                   ELSE [proc[j] EXCEPT !.latest = FALSE]]
    /\ UNCHANGED <<web, maps, erddap, unreadable, fcMade, mapsDone, last,
                   call, images, elnino>>

\* save_and_transfer_data, line 314: to_csv writes the next rows at the
\* writer's own offset
ProcCsvWrite(i) ==
    /\ proc[i].pc = "writing"
    /\ proc[i].n < Len(proc[i].out)
    /\ LET p == proc[i]
           m == IF p.n + FlushRows < Len(p.out) THEN p.n + FlushRows
                ELSE Len(p.out)
       IN  /\ csv' = WriteAt(csv, p.n, SubSeq(p.out, p.n + 1, m))
           /\ proc' = [j \in Inst |->
                          IF j = i THEN [p EXCEPT !.n = m, !.latest = TRUE]
                          ELSE [proc[j] EXCEPT !.latest = FALSE]]
    /\ UNCHANGED <<web, maps, erddap, unreadable, fcMade, mapsDone, last,
                   call, images, elnino>>

\* save_and_transfer_data, lines 314-315: to_csv returns, the file is closed
ProcCsvClose(i) ==
    /\ proc[i].pc = "writing"
    /\ proc[i].n = Len(proc[i].out)
    /\ proc' = [proc EXCEPT ![i].pc = "done"]
    /\ UNCHANGED <<pipeline, call>>

\* the process dies (kill, power loss) somewhere inside
\* save_and_transfer_data; at most one instance does
ProcCrash(i) ==
    /\ proc[i].pc \in {"computed", "json_saved", "writing"}
    /\ \A j \in Inst : proc[j].pc # "crashed"
    /\ proc' = [proc EXCEPT ![i].pc = "crashed", ![i].at = proc[i].pc]
    /\ UNCHANGED <<pipeline, call>>

NextProc ==
    \/ \E i \in Inst : ProcLoad(i)
    \/ \E i \in Inst : ProcOpen(i)
    \/ \E i \in Inst : ProcSaveJson(i)
    \/ \E i \in Inst : ProcCsvOpen(i)
    \/ \E i \in Inst : ProcCsvWrite(i)
    \/ \E i \in Inst : ProcCsvClose(i)
    \/ \E i \in Inst : ProcCrash(i)
    \/ \E k \in NewMonths : RemotePublish(k, "ok", FALSE)

SpecProc == InitProc /\ [][NextProc]_vars

----------------------------------------------------------------------------
(* C24 *)

\* C24: saving the series is atomic.  When an instance of the update stage
\* that runs alone dies inside save_and_transfer_data, the series file on
\* disk is either the complete series it read or the complete series it was
\* saving, never an empty or truncated file.
C24_SaveAtomic ==
    \A i \in DOMAIN proc :
        (/\ proc[i].pc = "crashed"
         /\ \A j \in DOMAIN proc : j # i => proc[j].pc = "start")
            => csv \in {proc[i].rows, proc[i].out}

----------------------------------------------------------------------------
(* C25 *)

\* C25: when two instances of the update stage overlap and both have
\* finished, the series file is exactly the complete series that the
\* instance that wrote last computed from what it read, never a mixture of
\* the two writers' rows.
C25_LastWriterWins ==
    (proc # NoProc /\ \A i \in DOMAIN proc : proc[i].pc = "done")
        => \E i \in DOMAIN proc : proc[i].latest /\ csv = proc[i].out

----------------------------------------------------------------------------
(* C26 *)

\* C26: a series file that lacks the month key column or the anomaly column
\* makes the update stage fail before any call to the remote dataset: an
\* instance that read such a file never opens the remote dataset.
C26_MissingColumnFatalAtStartup ==
    \A i \in DOMAIN proc :
        (proc[i].pc # "start" /\ ~(Required \subseteq Columns(proc[i].rows)))
            => proc[i].remote = 0

----------------------------------------------------------------------------
(* The summary step on series of every shape *)

\* month keys a persisted row can carry: none, the remote newest month, the
\* month after it
SummaryKeys == {Blank, SeedLast, NextMonth(SeedLast)}

\* indicators around the alert threshold
SummaryIndicators == {AlertThreshold - 1, AlertThreshold}

SummaryRows ==
    {Row(k, i, i) : k \in SummaryKeys, i \in SummaryIndicators}

\* longest series drawn
MaxSeries == 2

\* the series files the orchestrator can find
SummarySeries ==
    UNION {[1..n -> SummaryRows] : n \in 1..MaxSeries}

InitSummary ==
    /\ csv \in SummarySeries
    /\ fcMade = {}
    /\ call = NoCall
    /\ proc = NoProc
    /\ SeedState

NextSummary ==
    \/ \E fails \in FailCounts : UpdateMain(fails)
    \/ \E today \in RunDays, fetchFails \in FailCounts, openFails \in FailCounts :
           ControlMain(today, fetchFails, openFails, FALSE, FALSE)

SpecSummary == InitSummary /\ [][NextSummary]_vars

\* the rows a summary of the series may describe when the remote newest
\* month is ym: those of the latest month beyond ym if the series has one,
\* otherwise those of the newest month up to ym (one row, unless the file
\* holds a month twice)
DashboardRows(rows, ym) ==
    LET dated   == {i \in 1..Len(rows) : rows[i].dateyrmo # Blank}
        later   == {i \in dated : rows[i].dateyrmo > ym}
        earlier == {i \in dated : rows[i].dateyrmo <= ym}
        from    == IF later # {} THEN later ELSE earlier
        newest  == {i \in from : \A j \in from : rows[j].dateyrmo <= rows[i].dateyrmo}
    IN  {rows[i] : i \in newest}

----------------------------------------------------------------------------
(* C27 *)

\* C27: a row with a blank month key never reaches the dashboard summary.
\* When every row the summary step could select has a blank key, an
\* orchestrator run leaves web_data.json as it was; and the forecast label
\* of a summary it writes is always the month key of a row of the series,
\* never a date made up for a blank key.
C27_BlankKeyNoSummary ==
    [][ControlRun =>
          /\ MonthRows(csv') = <<>> => web' = web
          /\ web' # web => web'[1].fc_date \in Keys(MonthRows(csv'))]_vars

\* an orchestrator run completed on a series whose rows all have a blank
\* key (its update stage could not open the remote) and wrote no summary
C27_Witness ==
    /\ last.kind = "control" /\ last.exit = 0
    /\ csv # <<>> /\ MonthRows(csv) = <<>>
    /\ web = <<>>

----------------------------------------------------------------------------
(* C28 *)

\* C28: every orchestrator run that completes rebuilds the summary from the
\* series as persisted at that moment: the summary describes the forecast
\* row (latest month beyond the remote newest) when there is one, otherwise
\* the newest observed row; its label is that row's month, its index that
\* row's indicator.  (A series without any row that has a month is the
\* case of C27.)
C28_SummaryFromSelectedRow ==
    [][(ControlRun /\ MonthRows(csv') # <<>>) =>
          /\ web' # <<>>
          /\ \E r \in DashboardRows(csv', RemoteLatest) :
                 /\ web'[1].fc_date = r.dateyrmo
                 /\ web'[1].new_index = r.indicator]_vars

\* an orchestrator run found the series up to date, ran no stage, and its
\* summary describes the forecast row, which is not the newest observed row
C28_Witness ==
    /\ last.kind = "control" /\ last.exit = 0 /\ ~last.ranUpdate
    /\ csv[Len(csv)].dateyrmo > RemoteLatest
    /\ web # <<>> /\ web[1].fc_date = csv[Len(csv)].dateyrmo

----------------------------------------------------------------------------
(* C29 *)

\* C29: the alert of a summary is "Alert" exactly when the indicator of the
\* row it describes is at least 0.77, the threshold included; the summary
\* written by the orchestrator and the one written by the update stage
\* follow the same rule.
C29_AlertRule ==
    [][/\ (ControlRun /\ MonthRows(csv') # <<>>) =>
              \E r \in DashboardRows(csv', RemoteLatest) :
                  /\ web'[1].new_index = r.indicator
                  /\ web'[1].alert \in {"Alert", "No Alert"}
                  /\ web'[1].alert = "Alert" <=> r.indicator >= AlertThreshold
       /\ (last'.kind = "update" /\ UpdateSaved) =>
              /\ web'[1].alert \in {"Alert", "No Alert"}
              /\ web'[1].alert = "Alert" <=>
                     csv'[Len(csv')].indicator >= AlertThreshold]_vars

\* an orchestrator run described a row whose indicator is exactly 0.77 and
\* raised the alert
C29_Witness ==
    /\ last.kind = "control" /\ last.exit = 0
    /\ web # <<>>
    /\ web[1].new_index = AlertThreshold
    /\ web[1].alert = "Alert"

----------------------------------------------------------------------------
(* C30 *)

\* C30: the missing months an update-stage run works through are exactly
\* the remote months that the loaded series does not hold, each once, in
\* ascending order; with nothing missing the list is empty and the run goes
\* on to its save.
C30_MissingMonthsResolved ==
    [][(UpdateRan /\ last'.openFails # Retries) =>
          /\ \A i \in 1..Len(last'.read) - 1 : last'.read[i] < last'.read[i + 1]
          /\ Range(last'.read) = (DOMAIN erddap) \ Keys(MonthRows(csv))
          /\ last'.read = <<>> => last'.updateOk]_vars

\* an update-stage run found two months missing and took them oldest first
C30_Witness ==
    /\ last.ranUpdate /\ last.updateOk
    /\ Len(last.read) = 2
    /\ last.read[1] < last.read[2]
    /\ Range(last.read) \subseteq Keys(csv)

----------------------------------------------------------------------------
(* The index lookups of the region's box *)

\* largest coordinate of a drawn axis (coordinates are whole numbers of the
\* grid's unit, from 1)
MaxCoord == 5

\* the bounds a lookup is asked for: on the axis, between its values, or
\* outside it on either side
LookupBounds == 0..(MaxCoord + 1)

\* the coordinate axes: every ascending array of distinct values
LookupArrays == {SortedSeq(S) : S \in (SUBSET (1..MaxCoord)) \ {{}}}

Abs(x) == IF x < 0 THEN 0 - x ELSE x

\* the element of a numpy array or Python list at (0-based) index i
At(arr, i) == arr[i + 1]

\* a lookup that answers 0 whatever the array
ArgMinAbs_Zero(arr, val) == 0

\* np.abs(arr - val).argmin(): the first index of the smallest distance
ArgMinAbs(arr, val) ==
    CHOOSE i \in 0..(Len(arr) - 1) :
        /\ \A j \in 0..(Len(arr) - 1) : Abs(At(arr, i) - val) <= Abs(At(arr, j) - val)
        /\ \A j \in 0..(i - 1) : Abs(At(arr, j) - val) > Abs(At(arr, i) - val)

\* get_closest_value_indices(arr, val_range)
GetClosestValueIndices(arr, range) ==
    <<ArgMinAbs(arr, range[1]), ArgMinAbs(arr, range[2])>>

\* find_closest that keeps the smaller neighbour on a tie
FindClosest_Smaller(val1, val2, target) ==
    IF target - val1 > val2 - target THEN val2 ELSE val1

\* find_closest(val1, val2, target)
FindClosest(val1, val2, target) ==
    IF target - val1 >= val2 - target THEN val2 ELSE val1

\* get_closest_value, lines 50-63: the binary search from (left, right, mid)
\* on, and the choice between the two neighbours it ends on
RECURSIVE BSearch(_, _, _, _, _)
BSearch(arr, target, left, right, mid) ==
    IF left < right
    THEN LET m == (left + right) \div 2
         IN  IF target < At(arr, m) THEN BSearch(arr, target, left, m, m)
             ELSE IF target > At(arr, m) THEN BSearch(arr, target, m + 1, right, m)
             ELSE At(arr, m)
    ELSE IF target < At(arr, mid)
         THEN FindClosest(At(arr, mid - 1), At(arr, mid), target)
         ELSE FindClosest(At(arr, mid), At(arr, mid + 1), target)

\* get_closest_value(arr, target)
GetClosestValue(arr, target) ==
    LET n == Len(arr)
    IN  IF target >= At(arr, n - 1) THEN At(arr, n - 1)
        ELSE IF target <= At(arr, 0) THEN At(arr, 0)
        ELSE BSearch(arr, target, 0, n - 1, 0)

\* list(coord_arr).index(val): the first index that holds val
IndexOf(arr, val) ==
    CHOOSE i \in 0..(Len(arr) - 1) :
        At(arr, i) = val /\ \A j \in 0..(i - 1) : At(arr, j) # val

\* max_min_idx(coord_arr, coord_val)
MaxMinIdx(arr, range) ==
    <<IndexOf(arr, GetClosestValue(arr, range[1])),
      IndexOf(arr, GetClosestValue(arr, range[2]))>>

\* a call of the lookups on one axis and one pair of bounds
InitLookup ==
    /\ csv = SeedOutcome
    /\ fcMade = {NextMonth(SeedLast)}
    /\ call \in {[helper |-> "lookup", arr |-> a, range |-> <<lo, hi>>,
                  current |-> <<>>, legacy |-> <<>>] :
                     a \in LookupArrays, lo \in LookupBounds, hi \in LookupBounds}
    /\ proc = NoProc
    /\ SeedState

\* update_total_indicator_2025.py, lines 365-366
GetClosestValueIndicesCall ==
    /\ call.current = <<>>
    /\ call' = [call EXCEPT !.current = GetClosestValueIndices(call.arr, call.range)]
    /\ UNCHANGED <<pipeline, proc>>

\* make_loggerhead_index2023.py, lines 181-182
MaxMinIdxCall ==
    /\ call.legacy = <<>>
    /\ call' = [call EXCEPT !.legacy = MaxMinIdx(call.arr, call.range)]
    /\ UNCHANGED <<pipeline, proc>>

NextLookup ==
    \/ GetClosestValueIndicesCall
    \/ MaxMinIdxCall

SpecLookup == InitLookup /\ [][NextLookup]_vars

----------------------------------------------------------------------------
(* C31 *)

\* index i holds an element of arr nearest to bound b; a bound below the
\* axis gives the first index, a bound above it the last
NearestIndex(arr, b, i) ==
    /\ i \in 0..(Len(arr) - 1)
    /\ \A j \in 0..(Len(arr) - 1) : Abs(At(arr, i) - b) <= Abs(At(arr, j) - b)
    /\ b < At(arr, 0) => i = 0
    /\ b > At(arr, Len(arr) - 1) => i = Len(arr) - 1

\* C31: for every ascending coordinate array and every bound,
\* get_closest_value_indices returns the index of an element at minimal
\* absolute distance from the bound; a bound below the first element gives
\* index 0 and a bound above the last gives the last index.
C31_NearestIndexClamped ==
    (call.helper = "lookup" /\ call.current # <<>>) =>
        /\ NearestIndex(call.arr, call.range[1], call.current[1])
        /\ NearestIndex(call.arr, call.range[2], call.current[2])

\* the lookup was asked for a box that sticks out of a three-point axis on
\* both sides and answered with its two ends
C31_Witness ==
    /\ call.helper = "lookup"
    /\ Len(call.arr) = 3
    /\ call.range[1] < call.arr[1] /\ call.range[2] > call.arr[3]
    /\ call.current = <<0, 2>>

----------------------------------------------------------------------------
(* C34 *)

\* bound b lies exactly half way between two neighbouring elements of arr
Equidistant(arr, b) ==
    \E i \in 0..(Len(arr) - 2) :
        /\ At(arr, i) < b /\ b < At(arr, i + 1)
        /\ b - At(arr, i) = At(arr, i + 1) - b

\* C34: on every ascending array of distinct values and every pair of
\* bounds, max_min_idx and get_closest_value_indices return the same index
\* for a bound, except for a bound exactly half way between two neighbouring
\* elements: there max_min_idx returns the larger neighbour and
\* get_closest_value_indices the smaller.
C34_LegacyAgreesButTies ==
    (call.helper = "lookup" /\ call.current # <<>> /\ call.legacy # <<>>) =>
        \A p \in 1..2 :
            IF Equidistant(call.arr, call.range[p])
            THEN /\ call.legacy[p] = call.current[p] + 1
                 /\ At(call.arr, call.current[p]) < call.range[p]
                 /\ At(call.arr, call.legacy[p]) > call.range[p]
            ELSE call.legacy[p] = call.current[p]

\* both lookups answered for a box whose lower bound is half way between
\* two neighbours and whose upper bound is not: they differ on the first
\* index only
C34_Witness ==
    /\ call.helper = "lookup"
    /\ call.current # <<>> /\ call.legacy # <<>>
    /\ Len(call.arr) >= 3
    /\ Equidistant(call.arr, call.range[1])
    /\ ~Equidistant(call.arr, call.range[2])
    /\ call.legacy[1] = call.current[1] + 1
    /\ call.legacy[2] = call.current[2]
    /\ call.current[2] > call.legacy[1]

----------------------------------------------------------------------------
(* C32 *)

\* how many times row r occurs in the series s
Occurrences(s, r) == Cardinality({i \in 1..Len(s) : s[i] = r})

\* the month of key k is a month of the calendar
CalendarMonth(k) == k > 0 /\ k % 100 >= 1 /\ k % 100 <= 12

----------------------------------------------------------------------------
(* The pipeline while the remote only grows *)

\* The provider publishes months (in any order, readable or not) and never
\* withdraws one; the update stage and the orchestrator run in any order.
NextGrow ==
    \/ \E k \in AllMonths, bad \in BOOLEAN : RemotePublish(k, "ok", bad)
    \/ \E fails \in FailCounts : UpdateMain(fails)
    \/ \E today \in RunDays, fetchFails \in FailCounts, openFails \in FailCounts :
           ControlMain(today, fetchFails, openFails, FALSE, FALSE)

SpecGrow == Init /\ [][NextGrow]_vars

----------------------------------------------------------------------------
(* C33 *)

\* the rows of a series whose month is later than ym
RowsBeyond(rows, ym) ==
    LET Later(r) == r.dateyrmo > ym
    IN  SelectSeq(rows, Later)

\* C33: while the remote newest month never decreases, whenever an
\* orchestrator run judges the indicator up to date (no observed update
\* needed, forecast row present), the series holds exactly one row beyond
\* the remote newest month, and that row's month is the month after it.
C33_UpToDateMeansOneForecast ==
    [][(ControlRun /\ ~last'.needsObs /\ ~last'.missingFc) =>
          /\ csv' = csv
          /\ Len(RowsBeyond(csv, RemoteLatest)) = 1
          /\ RowsBeyond(csv, RemoteLatest)[1].dateyrmo = NextMonth(RemoteLatest)]_vars

\* after the remote has grown past the seed, an orchestrator run found the
\* indicator up to date and ran no update
C33_Witness ==
    /\ last.kind = "control" /\ last.exit = 0
    /\ ~last.needsObs /\ ~last.missingFc /\ ~last.ranUpdate
    /\ RemoteLatest > SeedLast
    /\ csv[Len(csv)].dateyrmo = NextMonth(RemoteLatest)

----------------------------------------------------------------------------
(* C35 *)

\* C35: for every value of `retries`, zero and negative ones included, a
\* call of fetch_with_retry or get_data_from_erddap ends in one of two ways:
\* it returns the response or dataset it obtained, or it raises or exits the
\* process.  It never returns without a result.
C35_ResultOrFailure ==
    (call.helper \in {"fetch_with_retry", "get_data_from_erddap"} /\ CallEnded)
        => call.status \in {"returned", "raised", "exit1"}

----------------------------------------------------------------------------
(* update_Itca_closure.py: fetch_with_retry_json, attempt by attempt *)

\* the body of the for loop of fetch_with_retry_json, once.  The handler of
\* a request error first evaluates print(..., file=sys.stderr), and the
\* module does not import sys (lines 49-54): the handler raises NameError
\* before it reaches `raise` or time.sleep
FetchJsonAttempt(c) ==
    LET o == c.outs[c.attempt]
    IN  IF o = "ok"
        THEN [c EXCEPT !.made = @ + 1, !.status = "returned"]
        ELSE IF RetriedByFetch(o)
        THEN [c EXCEPT !.made = @ + 1, !.status = "nameerror"]
        ELSE [c EXCEPT !.made = @ + 1, !.status = "raised"]

InitJson ==
    /\ csv = SeedOutcome /\ fcMade = {NextMonth(SeedLast)}
    /\ SeedState
    /\ proc = NoProc
    /\ call \in CallsOf("fetch_with_retry_json", FetchOutcomes)

\* fetch_with_retry_json: the next pass of its loop, or the end of the loop
FetchWithRetryJsonStep ==
    /\ call.helper = "fetch_with_retry_json" /\ call.status = "running"
    /\ call' = IF call.attempt > call.retries THEN [call EXCEPT !.status = "none"]
               ELSE FetchJsonAttempt(call)
    /\ UNCHANGED <<pipeline, proc>>

NextJson == FetchWithRetryJsonStep

SpecJson == InitJson /\ [][NextJson]_vars

----------------------------------------------------------------------------
(* C36 *)

\* C36: fetch_with_retry_json retries after a connection error, a timeout
\* or a 429/5xx response: after such a failure on attempt k < retries it
\* sleeps and issues another request, and it gives up, re-raising the
\* request error, only after `retries` failed attempts.
C36_JsonFetchRetries ==
    call.helper = "fetch_with_retry_json" =>
        /\ \A k \in 1..call.made :
              (call.outs[k] \in {"connection", "timeout", "retriable"}
                  /\ k < call.retries) =>
                  /\ Len(call.sleeps) >= k
                  /\ call.status = "running" \/ call.made > k
        /\ (call.status \notin {"running", "returned", "none"}
              /\ call.outs[call.made] \in {"connection", "timeout", "retriable"}) =>
              (call.status = "raised" /\ call.made = call.retries)

----------------------------------------------------------------------------
(* update_ltca_closure.py / update_Itca_closure.py: merge_records *)

\* the Federal Register links of the closure notices
Links == {"fr-a", "fr-b", "fr-c"}

\* a closure record: its link and the rest of its fields (year, start, end)
ClosureRecords == {[cl_link |-> l, year |-> y] : l \in Links, y \in {2024, 2025}}

\* longest list of records drawn
MaxRecords == 2

RecordLists == UNION {[1..n -> ClosureRecords] : n \in 0..MaxRecords}

\* the links of a list of records
LinksOf(recs) == {recs[i].cl_link : i \in 1..Len(recs)}

\* no two records of the list have the same cl_link
UniqueLinks(recs) ==
    \A i, j \in 1..Len(recs) : recs[i].cl_link = recs[j].cl_link => i = j

\* merge_records, lines 152-156: the loop over the fetched records;
\* existing_links is built once from the existing records and is not added
\* to when a record is appended
RECURSIVE MergeLoop(_, _, _)
MergeLoop(merged, existingLinks, new) ==
    IF new = <<>> THEN merged
    ELSE IF Head(new).cl_link \notin existingLinks
         THEN MergeLoop(Append(merged, Head(new)), existingLinks, Tail(new))
         ELSE MergeLoop(merged, existingLinks, Tail(new))

\* merge_records(existing, new)
MergeRecords(existing, new) == MergeLoop(existing, LinksOf(existing), new)

\* a call of merge_records: the CSV's records have unique links
InitMerge ==
    /\ csv = SeedOutcome /\ fcMade = {NextMonth(SeedLast)}
    /\ SeedState
    /\ proc = NoProc
    /\ call \in {[helper |-> "merge_records", existing |-> e, new |-> n,
                  merged |-> <<>>, status |-> "running"] :
                     e \in {r \in RecordLists : UniqueLinks(r)}, n \in RecordLists}

\* main: merged = merge_records(existing, new)
MergeRecordsCall ==
    /\ call.helper = "merge_records" /\ call.status = "running"
    /\ call' = [call EXCEPT !.merged = MergeRecords(call.existing, call.new),
                            !.status = "returned"]
    /\ UNCHANGED <<pipeline, proc>>

NextMerge == MergeRecordsCall

SpecMerge == InitMerge /\ [][NextMerge]_vars

----------------------------------------------------------------------------
(* C37 *)

\* C37: merge_records keeps the existing records first and in their order,
\* appends a fetched record only when its cl_link is not yet present, and,
\* given existing records with unique cl_link, returns a list with unique
\* cl_link for every list of fetched records, one that repeats a cl_link
\* included.
C37_MergeKeepsLinksUnique ==
    (call.helper = "merge_records" /\ call.status = "returned") =>
        /\ Len(call.merged) >= Len(call.existing)
        /\ SubSeq(call.merged, 1, Len(call.existing)) = call.existing
        /\ UniqueLinks(call.merged)

----------------------------------------------------------------------------
(* plot_total_tool_2025.py, run on its own and by the orchestrator *)

\* the -e arguments of a plot run: none, the seed's newest observed month
\* (November), the month after it (December)
EndDates == {Blank, SeedLast, NextMonth(SeedLast)}

\* python plot_total_tool_2025.py [-e enddate], from the project root
PlotMain(enddate) ==
    /\ LoadSeries(csv) # <<>>
    /\ images' = PlotStage(images, csv, enddate)
    /\ call' = [helper |-> "plot_total_tool", enddate |-> enddate,
                end |-> PlotEnd(csv, enddate),
                tick |-> IF call.helper = "plot_total_tool" THEN 1 - call.tick
                         ELSE 0]
    /\ UNCHANGED <<csv, web, maps, erddap, unreadable, fcMade, mapsDone, last,
                   proc, elnino>>

\* The provider publishes readable months in order; the orchestrator runs
\* from the project root or from elsewhere; the plot stage is also run by
\* hand.
NextPlot ==
    \/ \E k \in AllMonths :
           k = NextMonth(SetMax(DOMAIN erddap)) /\ RemotePublish(k, "ok", FALSE)
    \/ \E today \in RunDays, openFails \in FailCounts, plotOk \in BOOLEAN :
           ControlMain(today, 0, openFails, FALSE, plotOk)
    \/ \E enddate \in EndDates : PlotMain(enddate)

SpecPlot == Init /\ [][NextPlot]_vars

----------------------------------------------------------------------------
(* C39 *)

\* this step is a run of the plot stage on its own
PlotRun == call'.helper = "plot_total_tool" /\ call' # call

\* C39: after a plot-stage run whose end month is December, the images
\* directory holds both indicator_latest.png and indicator_<year>.png; after
\* a run with any other end month only indicator_latest.png has been
\* written.
C39_DecemberKeepsBothPlots ==
    [][PlotRun =>
          IF call'.end % 100 = 12
          THEN /\ images'.latest = <<call'.end>>
               /\ (call'.end \div 100) \in DOMAIN images'.yearly
          ELSE /\ images'.latest = <<call'.end>>
               /\ images'.yearly = images.yearly]_vars

\* ---------------------------------------------------------------------------
\* scape_elnino_2025.py: the El Nino advisory scraper
\* ---------------------------------------------------------------------------

\* the advisories the CPC page can show: issue date and alert status
AdvisoryDates ==
    {[ym |-> SeedLast, day |-> MidMonth]} \cup
    {[ym |-> NextMonth(SeedLast), day |-> d] : d \in RunDays}

AlertTexts == {"El Nino Watch", "Not available"}

Advisories == [date : AdvisoryDates, status : AlertTexts]

\* new_date_obj <= last_date_obj, with the comparison made strict
NotNewer_Strict(new, stored) == DateLT(new, stored)

\* new_date_obj <= last_date_obj
NotNewer(new, stored) == ~DateLT(stored, new)

\* last_date_obj: the date in elnino_last.json, datetime.min when the file
\* is missing or cannot be read
LastDateObj(files) ==
    IF files.main = <<>> THEN DatetimeMin ELSE files.main[1].date

\* {date_yrmo}_elnino.json written with the scraped advisory
WriteArchive(files, scraped) ==
    [files EXCEPT !.archive =
        [k \in (DOMAIN files.archive) \cup {scraped.date.ym} |->
            IF k = scraped.date.ym THEN scraped ELSE files.archive[k]]]

\* main: one run of the scraper; `custom` is a run with -d, `fetched` is
\* whether the page was fetched and its date found (exit 3 otherwise)
ElninoMain(scraped, custom, fetched) ==
    /\ call' = [helper |-> "scape_elnino", scraped |-> scraped,
                custom |-> custom, fetched |-> fetched,
                tick |-> IF call.helper = "scape_elnino" THEN 1 - call.tick ELSE 0]
    /\ elnino' =
           IF ~fetched THEN elnino
           ELSE IF ~custom /\ NotNewer(scraped.date, LastDateObj(elnino)) THEN elnino
           ELSE IF custom THEN WriteArchive(elnino, scraped)
           ELSE [WriteArchive(elnino, scraped) EXCEPT !.main = <<scraped>>]
    /\ UNCHANGED <<csv, web, maps, erddap, unreadable, fcMade, mapsDone, last,
                   proc, images>>

NextElnino ==
    \E scraped \in Advisories, custom \in BOOLEAN, fetched \in BOOLEAN :
        ElninoMain(scraped, custom, fetched)

SpecElnino == Init /\ [][NextElnino]_vars

\* a run of the scraper without a custom date that found an advisory
ElninoRun ==
    /\ call'.helper = "scape_elnino" /\ call' # call
    /\ ~call'.custom /\ call'.fetched

\* C38: in a run without a custom date that finds an advisory, when
\* elnino_last.json holds a date, the file is overwritten (with the scraped
\* advisory) exactly when the scraped date is strictly later than the stored
\* one; the stored date never decreases in any step; and a run whose advisory
\* is not newer writes neither the main file nor an archive file.
C38_MainFileOnlyMovesForward ==
    [][ /\ (ElninoRun /\ elnino.main # <<>>) =>
              (LET stored == elnino.main[1].date
                   new    == call'.scraped.date
               IN  /\ (elnino'.main # elnino.main) <=> DateLT(stored, new)
                   /\ DateLT(stored, new) => elnino'.main = <<call'.scraped>>
                   /\ ~DateLT(stored, new) => elnino' = elnino)
        /\ (elnino.main # <<>>) =>
              (/\ elnino'.main # <<>>
               /\ ~DateLT(elnino'.main[1].date, elnino.main[1].date)) ]_vars

\* a run found an advisory of the stored date with another text, or an older
\* one, and left the files alone: the main file keeps its advisory and
\* no archive of the older month exists
C38_Witness ==
    /\ call.helper = "scape_elnino" /\ ~call.custom /\ call.fetched
    /\ elnino.main # <<>>
    /\ ~DateLT(elnino.main[1].date, call.scraped.date)
    /\ elnino.main[1] # call.scraped
    /\ call.scraped.date.ym \notin DOMAIN elnino.archive

====
